---- MODULE Spec2Model ----
(***************************************************************************)
(* deep-plan (deepplan.py): the plan store (default_plan, migrate_plan,    *)
(* load_plan, save_plan), the QA rubric (run_qa, print_qa), the repair     *)
(* routine (auto_replan_stub) and the commands that drive them (cmd_plan,  *)
(* cmd_replan, cmd_qa).                                                    *)
(*                                                                         *)
(* A plan document is a Python dict: here a function from the keys it      *)
(* holds to their values, so that a missing key is a key outside DOMAIN.   *)
(* Strings are TLA+ strings, lists are sequences, a risk is a record.      *)
(* A timestamp (now_iso) is the number of the second it names.             *)
(***************************************************************************)
EXTENDS Integers, Sequences, FiniteSets, TLC

VARIABLES
    disk,    \* plan.json: [kind |-> "absent"], [kind |-> "torn"] (an empty or
             \* partly written file) or [kind |-> "doc", doc |-> the document]
    wr,      \* who holds plan.json open for writing: "none", "ensure", "save"
    plan,    \* the dict the running code works on
    plan0,   \* the dict as it was before the last operation on it
    pc,      \* the position of the running code
    clock,   \* the last value read from the system clock
    cmd,     \* the command being run and its arguments
    qa1,     \* the first assessment (score, checks, critical_failure)
    qa2,     \* the assessment after repair
    steps    \* the steps the command has completed, in order

vars == <<disk, wr, plan, plan0, pc, clock, cmd, qa1, qa2, steps>>

\* ------------------------------------------------------------------ bounds

\* Lengths of plan_tasks, execution_tasks and the legacy tasks list run 0..MaxTasks.
MaxTasks == 5
\* The system clock reads 1..MaxClock.
MaxClock == 2

\* ------------------------------------------------------------- data model

Axes ==
    <<"direction_insights", "market_insights", "timing_insights",
      "differentiation_insights", "monetization_insights", "constraint_insights",
      "risk_signal_insights", "evolution_insights">>

AxisSet == {Axes[i] : i \in DOMAIN Axes}

\* The keys whose values are strings that the code tests with non_empty or truthiness.
StrKeys == {"goal", "success_metric", "deadline", "selected_option"}

default_plan(now) ==
    [version |-> "0.3.0", updated_at |-> now, goal |-> "", success_metric |-> "",
     deadline |-> "", constraints |-> <<>>, assumptions |-> <<>>, options |-> <<>>,
     selected_option |-> "", plan_tasks |-> <<>>, execution_tasks |-> <<>>,
     dependencies |-> <<>>, experiments |-> <<>>, risks |-> <<>>, references |-> <<>>,
     insights |-> <<>>, direction_insights |-> <<>>, market_insights |-> <<>>,
     timing_insights |-> <<>>, differentiation_insights |-> <<>>,
     monetization_insights |-> <<>>, constraint_insights |-> <<>>,
     risk_signal_insights |-> <<>>, evolution_insights |-> <<>>,
     definition_of_done |-> <<>>, evidence |-> <<>>]

\* The keys of the data model.
PlanKeys == DOMAIN default_plan(0)

\* "k in plan"
Has(p, k) == k \in DOMAIN p

\* plan[k] = v
Put(p, k, v) == [x \in (DOMAIN p) \cup {k} |-> IF x = k THEN v ELSE p[x]]

\* plan.pop(k, None)
Pop(p, k) == [x \in (DOMAIN p) \ {k} |-> p[x]]

\* plan.setdefault(k, v)
SetDefault(p, k, v) == IF Has(p, k) THEN p ELSE Put(p, k, v)

\* len(plan.get(k, []))
LenOf(p, k) == IF Has(p, k) THEN Len(p[k]) ELSE 0

\* str.strip on the strings of the model: "" and " " are blank, " u1 " is padded,
\* every other string has no surrounding whitespace.
strip(s) == CASE s = " " -> "" [] s = " u1 " -> "u1" [] OTHER -> s

\* non_empty(plan.get(k)): None (a missing key) is empty, a string is stripped
\* first, a list counts its items.
non_empty(p, k) ==
    IF ~Has(p, k) THEN FALSE
    ELSE IF k \in StrKeys THEN strip(p[k]) # ""
    ELSE Len(p[k]) > 0

\* "not plan.get(k)": Python truthiness, which does not strip.
Falsy(p, k) ==
    IF ~Has(p, k) THEN TRUE
    ELSE IF k \in StrKeys THEN p[k] = ""
    ELSE Len(p[k]) = 0

\* -------------------------------------------------------------- migration

\* The keys migrate_plan's loop gives a default, in its order.
MigrateKeyOrder ==
    <<"version", "updated_at", "goal", "success_metric", "deadline", "constraints",
      "assumptions", "options", "selected_option", "plan_tasks", "execution_tasks",
      "dependencies", "experiments", "risks", "references", "insights",
      "direction_insights", "market_insights", "timing_insights",
      "differentiation_insights", "monetization_insights", "constraint_insights",
      "risk_signal_insights", "evolution_insights", "definition_of_done", "evidence">>

RECURSIVE SetDefaults(_, _, _)
SetDefaults(p, i, now) ==
    IF i > Len(MigrateKeyOrder) THEN p
    ELSE SetDefaults(SetDefault(p, MigrateKeyOrder[i], default_plan(now)[MigrateKeyOrder[i]]),
                     i + 1, now)

\* The legacy split with the midpoint of line 65 rounded up.
LegacySplit_RoundsUp(p) ==
    IF Has(p, "tasks") /\ ~Has(p, "plan_tasks") /\ ~Has(p, "execution_tasks")
    THEN LET tasks == p["tasks"]
             split == (Len(tasks) + 1) \div 2
         IN Put(Put(p, "plan_tasks", SubSeq(tasks, 1, split)),
                "execution_tasks", SubSeq(tasks, split + 1, Len(tasks)))
    ELSE p

\* Lines 63-67: the legacy split.
LegacySplit(p) ==
    IF Has(p, "tasks") /\ ~Has(p, "plan_tasks") /\ ~Has(p, "execution_tasks")
    THEN LET tasks == p["tasks"]
             split == Len(tasks) \div 2
         IN Put(Put(p, "plan_tasks", SubSeq(tasks, 1, split)),
                "execution_tasks", SubSeq(tasks, split + 1, Len(tasks)))
    ELSE p

\* migrate_plan writing updated_at where line 72 only gives it a default.
migrate_plan_Restamps(p, now) ==
    Put(Put(SetDefaults(Pop(LegacySplit(p), "tasks"), 1, now), "version", "0.3.0"),
        "updated_at", now)

\* migrate_plan without line 100.
migrate_plan_KeepsVersion(p, now) == SetDefaults(Pop(LegacySplit(p), "tasks"), 1, now)

migrate_plan(p, now) ==
    Put(SetDefaults(Pop(LegacySplit(p), "tasks"), 1, now), "version", "0.3.0")

\* --------------------------------------------------------------- QA rubric

\* task_balance_ok with the bounds of line 246 exclusive.
task_balance_ok_Strict(p) ==
    LET np == LenOf(p, "plan_tasks")
        ne == LenOf(p, "execution_tasks")
        total == np + ne
    IN IF total < 4 \/ np = 0 \/ ne = 0 THEN FALSE
       ELSE 4 * total < 10 * np /\ 10 * np < 6 * total

task_balance_ok(p) ==
    LET np == LenOf(p, "plan_tasks")
        ne == LenOf(p, "execution_tasks")
        total == np + ne
    IN IF total < 4 \/ np = 0 \/ ne = 0 THEN FALSE
       \* 0.4 <= np / total <= 0.6 on doubles: np / total is the double nearest the
       \* quotient and 0.4, 0.6 the doubles nearest 2/5, 3/5, so for totals this
       \* small the comparison is the one on the exact quotient.
       ELSE 4 * total <= 10 * np /\ 10 * np <= 6 * total

insight_axes_covered(p) == \A i \in DOMAIN Axes : non_empty(p, Axes[i])

\* A CheckResult; detail is a fixed sentence per check that nothing reads.
CheckResult(name, passed, weight, critical) ==
    [name |-> name, passed |-> passed, weight |-> weight, critical |-> critical]

\* Lines 273-352: the twelve checks, in the order run_qa appends them.
Checks(p) ==
    <<CheckResult("goal_clarity", non_empty(p, "goal"), 10, TRUE),
      CheckResult("measurability",
                  non_empty(p, "success_metric") /\ non_empty(p, "deadline"), 10, TRUE),
      CheckResult("constraints", non_empty(p, "constraints"), 8, FALSE),
      CheckResult("assumptions", non_empty(p, "assumptions"), 8, FALSE),
      CheckResult("options_comparison",
                  LenOf(p, "options") >= 2 /\ non_empty(p, "selected_option"), 8, FALSE),
      CheckResult("references_coverage", LenOf(p, "references") >= 3, 10, FALSE),
      CheckResult("insight_axes_coverage", insight_axes_covered(p), 10, FALSE),
      CheckResult("plan_execution_balance", task_balance_ok(p), 10, TRUE),
      CheckResult("verification_loop", non_empty(p, "experiments"), 8, FALSE),
      CheckResult("risk_coverage", non_empty(p, "risks"), 8, FALSE),
      CheckResult("dependencies", non_empty(p, "dependencies"), 5, FALSE),
      CheckResult("definition_of_done", non_empty(p, "definition_of_done"), 5, TRUE)>>

\* The loop of lines 354-360 adding the weight of every check, passed or not.
RECURSIVE Tally_CountsFailed(_, _, _, _)
Tally_CountsFailed(checks, i, score, critical_failure) ==
    IF i > Len(checks)
    THEN [score |-> score, checks |-> checks, critical_failure |-> critical_failure]
    ELSE Tally_CountsFailed(checks, i + 1, score + checks[i].weight,
                            critical_failure \/ (checks[i].critical /\ ~checks[i].passed))

\* Lines 354-360: the loop over checks, from check i on.
RECURSIVE Tally(_, _, _, _)
Tally(checks, i, score, critical_failure) ==
    IF i > Len(checks)
    THEN [score |-> score, checks |-> checks, critical_failure |-> critical_failure]
    ELSE Tally(checks, i + 1,
               IF checks[i].passed THEN score + checks[i].weight ELSE score,
               critical_failure \/ (checks[i].critical /\ ~checks[i].passed))

run_qa(p) == Tally(Checks(p), 1, 0, FALSE)

\* print_qa testing the score before the critical failure.
print_qa_ScoreFirst(score, checks, critical_failure) ==
    IF score < 70 THEN "NEEDS_REPLAN"
    ELSE IF critical_failure THEN "CRITICAL_FAILURE"
    ELSE "PASS"

\* The Result line print_qa prints.
print_qa(score, checks, critical_failure) ==
    IF critical_failure THEN "CRITICAL_FAILURE"
    ELSE IF score < 70 THEN "NEEDS_REPLAN"
    ELSE "PASS"

\* ------------------------------------------------------------------ repair

\* The payload of lines 385-389 without its third option.
GenericOptions_Two ==
    <<"Conservative option: narrow scope and faster delivery.",
      "Balanced option: medium scope with staged rollout.">>

\* Lines 385-389.
GenericOptions ==
    <<"Conservative option: narrow scope and faster delivery.",
      "Balanced option: medium scope with staged rollout.",
      "Aggressive option: broad scope with higher risk.">>

GenericReferences ==
    <<"Spec-driven planning examples", "Agent workflow docs",
      "Postmortem of failed planning cases">>

GenericInsights ==
    <<"Treat planning as first-class work, not overhead.",
      "Require evidence links for every critical decision.",
      "Replan from execution signals, not intuition.">>

\* The sentence lines 405-420 write into each axis, in the order of Axes.
AxisSentence ==
    <<"State why this initiative matters now and what outcome it must create.",
      "Identify the highest-pain user segment and current alternatives.",
      "Define why this timing is favorable now and what delay would cost.",
      "Describe one clear strategic difference versus existing options.",
      "Link user value to a concrete monetization path.",
      "List execution constraints and the intended workaround strategy.",
      "Define one early failure signal and the immediate response.",
      "Define how the plan will be revised on a weekly or monthly cadence.">>

GenericPlanTasks ==
    <<"Collect references and extract constraints.",
      "Generate and compare three strategy options.">>

GenericExecutionTasks ==
    <<"Implement minimal CLI flow for plan/qa/replan.",
      "Run pilot and collect evidence against success metric.">>

GenericRisk ==
    [risk |-> "Scope drift", signal |-> "New requirements added mid-cycle",
     mitigation |-> "Freeze sprint scope and defer extras"]

\* Line 379: the names of the checks that did not pass.
FailedNames(checks) == {checks[i].name : i \in {j \in DOMAIN checks : ~checks[j].passed}}

\* "if <check> in failed and not plan.get(k): plan[k] = v"
FillIfEmpty(p, failed, check, k, v) ==
    IF check \in failed /\ Falsy(p, k) THEN Put(p, k, v) ELSE p

\* Lines 384-389 without the default selection of lines 390-391.
RepairOptions_NoSelection(p, failed) ==
    IF "options_comparison" \in failed /\ LenOf(p, "options") < 2
    THEN Put(p, "options", GenericOptions)
    ELSE p

\* Lines 384-391.
RepairOptions(p, failed) ==
    IF "options_comparison" \in failed /\ LenOf(p, "options") < 2
    THEN LET q == Put(p, "options", GenericOptions)
         IN IF Falsy(q, "selected_option")
            THEN Put(q, "selected_option", GenericOptions[2])
            ELSE q
    ELSE p

\* Lines 392-397 with the test of line 392 on emptiness, like line 380.
RepairReferences_OnlyIfEmpty(p, failed) ==
    IF "references_coverage" \in failed /\ Falsy(p, "references")
    THEN Put(p, "references", GenericReferences)
    ELSE p

\* Lines 392-397.
RepairReferences(p, failed) ==
    IF "references_coverage" \in failed /\ LenOf(p, "references") < 3
    THEN Put(p, "references", GenericReferences)
    ELSE p

\* Lines 398-403.
RepairInsights(p, failed) ==
    IF "insight_axes_coverage" \in failed /\ LenOf(p, "insights") < 3
    THEN Put(p, "insights", GenericInsights)
    ELSE p

\* Lines 404-420, from axis i on.
RECURSIVE RepairAxes(_, _, _)
RepairAxes(p, failed, i) ==
    IF i > Len(Axes) THEN p
    ELSE RepairAxes(IF "insight_axes_coverage" \in failed /\ Falsy(p, Axes[i])
                    THEN Put(p, Axes[i], <<AxisSentence[i]>>)
                    ELSE p,
                    failed, i + 1)

\* Lines 421-431 writing both lists whenever the check failed.
RepairBalance_Rebalances(p, failed) ==
    IF "plan_execution_balance" \in failed
    THEN Put(Put(p, "plan_tasks", GenericPlanTasks), "execution_tasks", GenericExecutionTasks)
    ELSE p

\* Lines 421-431.
RepairBalance(p, failed) ==
    IF "plan_execution_balance" \in failed
    THEN LET q == IF LenOf(p, "plan_tasks") = 0
                  THEN Put(p, "plan_tasks", GenericPlanTasks) ELSE p
         IN IF LenOf(q, "execution_tasks") = 0
            THEN Put(q, "execution_tasks", GenericExecutionTasks) ELSE q
    ELSE p

auto_replan_stub(p, checks) ==
    LET failed == FailedNames(checks)
        p1 == FillIfEmpty(p, failed, "constraints", "constraints",
                          <<"Define practical limits for time, budget, and staffing.">>)
        p2 == FillIfEmpty(p1, failed, "assumptions", "assumptions",
                          <<"Key assumptions need explicit validation.">>)
        p3 == RepairOptions(p2, failed)
        p4 == RepairReferences(p3, failed)
        p5 == RepairInsights(p4, failed)
        p6 == RepairAxes(p5, failed, 1)
        p7 == RepairBalance(p6, failed)
        p8 == FillIfEmpty(p7, failed, "verification_loop", "experiments",
                          <<"Run one pilot iteration and compare against success metric.">>)
        p9 == FillIfEmpty(p8, failed, "risk_coverage", "risks", <<GenericRisk>>)
        p10 == FillIfEmpty(p9, failed, "dependencies", "dependencies",
                           <<"Agent runtime support (Codex/Claude Code)">>)
    IN FillIfEmpty(p10, failed, "definition_of_done", "definition_of_done",
                   <<"All core commands work and QA >= 70.">>)

\* ---------------------------------------------------------------- commands

\* parse_csv(v): v is the argument already split on ","; each piece is stripped
\* and the blank ones are dropped.
RECURSIVE parse_csv(_)
parse_csv(v) ==
    IF v = <<>> THEN <<>>
    ELSE LET x == strip(Head(v))
         IN IF x # "" THEN <<x>> \o parse_csv(Tail(v)) ELSE parse_csv(Tail(v))

\* The list-valued arguments of "plan"; each is named like the key it sets.
PlanListArgs ==
    {"constraints", "assumptions", "options", "plan_tasks", "execution_tasks",
     "references", "insights", "dependencies", "experiments", "definition_of_done"}
    \cup AxisSet

\* Lines 456-497. An argument left out is "" (for a list argument, no pieces).
cmd_plan_update(p, args) ==
    [k \in DOMAIN p |->
        IF k \in {"goal", "success_metric", "deadline"}
        THEN IF args[k] # "" THEN args[k] ELSE p[k]
        ELSE IF k = "selected_option"
        THEN IF args[k] # "" THEN strip(args[k]) ELSE p[k]
        ELSE IF k \in PlanListArgs
        THEN IF Len(args[k]) > 0 THEN parse_csv(args[k]) ELSE p[k]
        ELSE p[k]]

\* The key each argument of "replan" appends to.
ReplanField ==
    [evidence |-> "evidence", plan_task |-> "plan_tasks",
     execution_task |-> "execution_tasks", reference |-> "references",
     insight |-> "insights", direction_insight |-> "direction_insights",
     market_insight |-> "market_insights", timing_insight |-> "timing_insights",
     differentiation_insight |-> "differentiation_insights",
     monetization_insight |-> "monetization_insights",
     constraint_insight |-> "constraint_insights",
     risk_signal_insight |-> "risk_signal_insights",
     evolution_insight |-> "evolution_insights"]

\* Lines 516-541.
cmd_replan_update(p, args) ==
    [k \in DOMAIN p |->
        IF \E a \in DOMAIN ReplanField : ReplanField[a] = k /\ args[a] # ""
        THEN LET a == CHOOSE b \in DOMAIN ReplanField : ReplanField[b] = k
             IN Append(p[k], strip(args[a]))
        ELSE p[k]]

\* ------------------------------------------------------------------ inputs

UserItems == <<"u1", "u2", "u3", "u4", "u5", "u6", "u7", "u8">>

\* A list of n items an operator wrote.
U(n) == SubSeq(UserItems, 1, n)

UserRisk == [risk |-> "u1", signal |-> "u1", mitigation |-> "u1"]

\* "" (empty), " " (blank) and a string with content.
Strs == {"", " ", "u1"}

NoKeys == [k \in {} |-> ""]

Merge(p, patch) ==
    [k \in (DOMAIN p) \cup (DOMAIN patch) |-> IF k \in DOMAIN patch THEN patch[k] ELSE p[k]]

Restrict(p, keys) == [k \in keys \cap DOMAIN p |-> p[k]]

\* The document ensure_state writes, saved at second 0.
EmptyDoc == default_plan(0)

\* The four critical checks pass and nothing else is set.
ScenarioDoc ==
    Merge(EmptyDoc,
          [goal |-> "u1", success_metric |-> "u1", deadline |-> "u1",
           definition_of_done |-> U(1), plan_tasks |-> U(2), execution_tasks |-> U(3)])

\* Every check passes on content an operator wrote.
FullDoc ==
    Merge(ScenarioDoc,
          [constraints |-> U(1), assumptions |-> U(1), options |-> U(2),
           selected_option |-> "u1", references |-> U(3), insights |-> U(3),
           experiments |-> U(1), risks |-> <<UserRisk>>, dependencies |-> U(1),
           evidence |-> U(1)] @@ [k \in AxisSet |-> U(1)])

SimpleKeys ==
    {"constraints", "assumptions", "experiments", "dependencies", "definition_of_done",
     "evidence"}

\* What one group of fields (the fields one check reads) may hold.
Patches ==
    {[goal |-> s] : s \in Strs}
    \cup {[success_metric |-> s, deadline |-> t] : s \in Strs, t \in Strs}
    \cup {[options |-> U(n), selected_option |-> s] : n \in 0..3, s \in Strs}
    \cup {[references |-> U(n)] : n \in 0..3}
    \cup {[insights |-> U(n)] : n \in 0..3}
    \cup {[k \in AxisSet |-> IF k \in S THEN U(1) ELSE <<>>] : S \in SUBSET AxisSet}
    \cup {[plan_tasks |-> U(a), execution_tasks |-> U(b)] :
             a \in 0..MaxTasks, b \in 0..MaxTasks}
    \cup {[k \in {key} |-> U(n)] : key \in SimpleKeys, n \in 0..1}
    \cup {[risks |-> r] : r \in {<<>>, <<UserRisk>>}}

\* Well-formed documents: a base with one group of fields set every way.
InputDocs == {Merge(b, patch) : b \in {EmptyDoc, ScenarioDoc, FullDoc}, patch \in Patches}

\* Keys migration treats specially; the others only get a default.
RestKeys == PlanKeys \ {"version", "updated_at", "plan_tasks", "execution_tasks"}

\* Persisted shapes: a legacy tasks list or none, plan_tasks and execution_tasks
\* present or not, any stored version, with the other keys all missing, all
\* present, or one missing, one present, or an unknown key.
MigrateDocs ==
    {Merge(Merge(Merge(Merge(Merge(rest, t), pt), et), v), u) :
        rest \in {NoKeys, Restrict(EmptyDoc, RestKeys), Restrict(FullDoc, RestKeys)},
        t \in {NoKeys} \cup {[tasks |-> U(n)] : n \in 0..MaxTasks},
        pt \in {NoKeys, [plan_tasks |-> <<>>], [plan_tasks |-> <<"w1">>]},
        et \in {NoKeys, [execution_tasks |-> <<>>], [execution_tasks |-> <<"w2">>]},
        v \in {NoKeys, [version |-> "0.2.0"], [version |-> "0.3.0"]},
        u \in {NoKeys, [updated_at |-> 0]}}
    \cup {Restrict(FullDoc, PlanKeys \ {k}) : k \in PlanKeys}
    \cup {Restrict(FullDoc, {k}) : k \in PlanKeys}
    \cup {Merge(FullDoc, [notes |-> "u1"]), [notes |-> "u1", tasks |-> U(3)]}

NoQa == [score |-> -1, checks |-> <<>>, critical_failure |-> FALSE]
NoCmd == [name |-> "none", args |-> NoKeys]
Absent == [kind |-> "absent"]
Torn == [kind |-> "torn"]
Doc(d) == [kind |-> "doc", doc |-> d]

CheckNames == {Checks(EmptyDoc)[i].name : i \in DOMAIN Checks(EmptyDoc)}

\* The checks with those in `named` marked as failed.
MarkFailed(checks, named) ==
    [i \in DOMAIN checks |->
        IF checks[i].name \in named THEN [checks[i] EXCEPT !.passed = FALSE] ELSE checks[i]]

\* ------------------------------------------------ QA on bounded documents

QaInit ==
    /\ plan \in InputDocs
    /\ plan0 = NoKeys /\ pc = "qa_in" /\ disk = Absent /\ wr = "none" /\ clock = 1
    /\ cmd = NoCmd /\ qa1 = NoQa /\ qa2 = NoQa /\ steps = <<>>

QaAssess ==
    /\ pc = "qa_in"
    /\ qa1' = run_qa(plan)
    /\ pc' = "qa_out"
    /\ UNCHANGED <<disk, wr, plan, plan0, clock, cmd, qa2, steps>>

SpecQA == QaInit /\ [][QaAssess]_vars

\* -------------------------------------------- repair on bounded documents

RpInit ==
    /\ plan \in InputDocs
    /\ plan0 = NoKeys /\ pc = "rp_in" /\ disk = Absent /\ wr = "none" /\ clock = 1
    /\ cmd = NoCmd /\ qa1 = NoQa /\ qa2 = NoQa /\ steps = <<>>

\* The verdicts handed to repair: those of run_qa, or those with one check or
\* every check named as failed whether it failed or not.
RpAssess ==
    /\ pc = "rp_in"
    /\ \E named \in {{}, CheckNames} \cup {{c} : c \in CheckNames} :
          qa1' = [run_qa(plan) EXCEPT !.checks = MarkFailed(@, named)]
    /\ pc' = "rp_assessed"
    /\ UNCHANGED <<disk, wr, plan, plan0, clock, cmd, qa2, steps>>

RpRepair ==
    /\ pc = "rp_assessed"
    /\ plan0' = plan
    /\ plan' = auto_replan_stub(plan, qa1.checks)
    /\ pc' = "rp_repaired"
    /\ UNCHANGED <<disk, wr, clock, cmd, qa1, qa2, steps>>

RpReassess ==
    /\ pc = "rp_repaired"
    /\ qa2' = run_qa(plan)
    /\ pc' = "rp_done"
    /\ UNCHANGED <<disk, wr, plan, plan0, clock, cmd, qa1, steps>>

RpNext == RpAssess \/ RpRepair \/ RpReassess

SpecRepair == RpInit /\ [][RpNext]_vars

\* ----------------------------------------- migration on persisted shapes

MgInit ==
    /\ plan \in MigrateDocs
    /\ plan0 = NoKeys /\ pc = "mg_in" /\ disk = Absent /\ wr = "none" /\ clock = 1
    /\ cmd = NoCmd /\ qa1 = NoQa /\ qa2 = NoQa /\ steps = <<>>

\* migrate_plan applied to the document, and then to its own result.
MgMigrate ==
    /\ pc \in {"mg_in", "mg_once"}
    /\ \E now \in clock..MaxClock :
          /\ plan' = migrate_plan(plan, now)
          /\ clock' = now
    /\ plan0' = plan
    /\ pc' = IF pc = "mg_in" THEN "mg_once" ELSE "mg_twice"
    /\ UNCHANGED <<disk, wr, cmd, qa1, qa2, steps>>

SpecMigrate == MgInit /\ [][MgMigrate]_vars

\* ------------------------------------------------- one run of one command

\* "plan" with no argument given.
NoPlanArgs ==
    [goal |-> "", success_metric |-> "", deadline |-> "", selected_option |-> ""]
    @@ [k \in PlanListArgs |-> <<>>]

\* "replan" with no argument given.
NoReplanArgs == [a \in DOMAIN ReplanField |-> ""]

CriticalArgs ==
    [goal |-> "u1", success_metric |-> "u1", deadline |-> "u1",
     definition_of_done |-> <<"u1">>, plan_tasks |-> <<"u1", " u1 ">>,
     execution_tasks |-> <<"u1", " ", "u2", "u3">>]

OtherArgs ==
    [constraints |-> <<"u1">>, assumptions |-> <<"u1">>,
     references |-> <<"u1", "u2", "u3">>, experiments |-> <<"u1">>,
     dependencies |-> <<"u1">>]

\* The argument lists "plan" is run with.
PlanArgs ==
    {Merge(NoPlanArgs, a) :
        a \in {NoKeys, CriticalArgs, OtherArgs, Merge(CriticalArgs, OtherArgs),
               [goal |-> " "], [options |-> <<"u1", "u2">>],
               [selected_option |-> " u1 "], [references |-> <<"u1">>],
               [constraints |-> <<" ">>],
               [plan_tasks |-> <<"u1">>, execution_tasks |-> <<"u1", "u2", "u3", "u4">>]}}

\* The argument lists "replan" is run with.
ReplanArgs ==
    {Merge(NoReplanArgs, a) :
        a \in {NoKeys, [evidence |-> "u1"], [plan_task |-> " u1 "],
               [execution_task |-> "u1"], [reference |-> "u1"],
               [direction_insight |-> "u1"], [plan_task |-> "u1", execution_task |-> " "]}}

\* What plan.json may hold when a command starts: nothing, the file a killed
\* writer left, a current document, or a legacy or hand-edited one.
InitialDisks ==
    {Absent, Torn}
    \cup {Doc(d) :
            d \in {EmptyDoc, ScenarioDoc, FullDoc,
                   [tasks |-> U(4), goal |-> "u1", version |-> "0.2.0"],
                   [tasks |-> U(2), plan_tasks |-> <<"w1">>, updated_at |-> 0],
                   Merge(ScenarioDoc, [options |-> U(2)]),
                   Merge(ScenarioDoc, [selected_option |-> " "]),
                   Merge(ScenarioDoc, [references |-> U(1), options |-> U(1)]),
                   Merge(ScenarioDoc, [plan_tasks |-> U(1), execution_tasks |-> U(4)]),
                   Merge(FullDoc, [references |-> U(2), risks |-> <<>>]),
                   Merge(FullDoc, [goal |-> " "])}
                  \cup {Restrict(FullDoc, PlanKeys \ {k}) : k \in PlanKeys}
                  \cup {Restrict(ScenarioDoc, {k}) : k \in PlanKeys}}

Init ==
    /\ disk \in InitialDisks
    /\ wr = "none" /\ plan = NoKeys /\ plan0 = NoKeys /\ pc = "start" /\ clock = 1
    /\ cmd = NoCmd /\ qa1 = NoQa /\ qa2 = NoQa /\ steps = <<>>

\* main: the parser hands the arguments to the command's function.
cmd_plan ==
    /\ pc = "start"
    /\ \E a \in PlanArgs : cmd' = [name |-> "plan", args |-> a]
    /\ pc' = "ensure"
    /\ UNCHANGED <<disk, wr, plan, plan0, clock, qa1, qa2, steps>>

cmd_replan ==
    /\ pc = "start"
    /\ \E a \in ReplanArgs : cmd' = [name |-> "replan", args |-> a]
    /\ pc' = "ensure"
    /\ UNCHANGED <<disk, wr, plan, plan0, clock, qa1, qa2, steps>>

cmd_qa ==
    /\ pc = "start"
    /\ cmd' = [name |-> "qa", args |-> NoKeys]
    /\ pc' = "ensure"
    /\ UNCHANGED <<disk, wr, plan, plan0, clock, qa1, qa2, steps>>

\* ensure_state, to the point where write_text has opened (and so emptied)
\* plan.json; default_plan() has read the clock by then. The three logs are
\* not modelled.
ensure_state ==
    /\ pc = "ensure"
    /\ IF disk.kind = "absent"
       THEN /\ \E now \in clock..MaxClock : clock' = now
            /\ disk' = Torn
            /\ wr' = "ensure"
            /\ pc' = "ensure_write"
       ELSE /\ pc' = "read"
            /\ UNCHANGED <<disk, wr, clock>>
    /\ UNCHANGED <<plan, plan0, cmd, qa1, qa2, steps>>

\* ensure_state's write_text writes the default document and closes the file.
ensure_write ==
    /\ pc = "ensure_write"
    /\ disk' = Doc(default_plan(clock))
    /\ wr' = "none"
    /\ steps' = Append(steps, "create")
    /\ pc' = "read"
    /\ UNCHANGED <<plan, plan0, clock, cmd, qa1, qa2>>

\* load_plan, lines 106-107, on a file json.loads cannot parse: the command
\* ends with the error.
load_fail ==
    /\ pc = "read"
    /\ disk.kind = "torn"
    /\ pc' = "error"
    /\ UNCHANGED <<disk, wr, plan, plan0, clock, cmd, qa1, qa2, steps>>

\* load_plan, lines 106-107: read, parse, migrate.
load_plan ==
    /\ pc = "read"
    /\ disk.kind = "doc"
    /\ \E now \in clock..MaxClock :
          /\ plan' = migrate_plan(disk.doc, now)
          /\ clock' = now
    /\ pc' = "load_save"
    /\ UNCHANGED <<disk, wr, plan0, cmd, qa1, qa2, steps>>

SavePcs == {"load_save", "cmd_save", "repair_save"}

\* save_plan to the point where write_text has opened (and so emptied) plan.json.
save_plan ==
    /\ pc \in SavePcs
    /\ wr = "none"
    /\ \E now \in clock..MaxClock :
          /\ plan' = Put(plan, "updated_at", now)
          /\ clock' = now
    /\ disk' = Torn
    /\ wr' = "save"
    /\ UNCHANGED <<plan0, pc, cmd, qa1, qa2, steps>>

\* save_plan's write_text writes the document and closes the file; the code
\* goes on after the call.
save_write ==
    /\ pc \in SavePcs
    /\ wr = "save"
    /\ disk' = Doc(plan)
    /\ wr' = "none"
    /\ steps' = Append(steps, IF pc = "load_save" THEN "load" ELSE "save")
    /\ pc' = CASE pc = "load_save" -> (IF cmd.name = "qa" THEN "assess" ELSE "update")
               [] pc = "cmd_save" -> "assess"
               [] pc = "repair_save" -> "reassess"
    /\ UNCHANGED <<plan, plan0, clock, cmd, qa1, qa2>>

\* cmd_plan lines 456-497, cmd_replan lines 516-541: the arguments go into the dict.
update ==
    /\ pc = "update"
    /\ plan' = IF cmd.name = "plan" THEN cmd_plan_update(plan, cmd.args)
               ELSE cmd_replan_update(plan, cmd.args)
    /\ pc' = "cmd_save"
    /\ UNCHANGED <<disk, wr, plan0, clock, cmd, qa1, qa2, steps>>

\* The test of line 505 without "not critical_failure".
Triggers_IgnoresCritical(name, qa) == name \in {"plan", "replan"} /\ qa.score < 70

\* Whether the command goes on to repair: cmd_plan line 505, cmd_replan line 548;
\* cmd_qa has no such branch.
Triggers(name, qa) == name \in {"plan", "replan"} /\ ~qa.critical_failure /\ qa.score < 70

\* run_qa and print_qa: cmd_plan lines 502-505, cmd_replan 546-548, cmd_qa 579-580.
assess ==
    /\ pc = "assess"
    /\ qa1' = run_qa(plan)
    /\ plan0' = plan
    /\ steps' = Append(steps, "assess")
    /\ pc' = IF Triggers(cmd.name, run_qa(plan)) THEN "repair" ELSE "done"
    /\ UNCHANGED <<disk, wr, plan, clock, cmd, qa2>>

\* cmd_plan line 507, cmd_replan line 550.
repair ==
    /\ pc = "repair"
    /\ plan' = auto_replan_stub(plan, qa1.checks)
    /\ steps' = Append(steps, "repair")
    /\ pc' = "repair_save"
    /\ UNCHANGED <<disk, wr, plan0, clock, cmd, qa1, qa2>>

\* cmd_plan lines 509-511, cmd_replan lines 552-554.
reassess ==
    /\ pc = "reassess"
    /\ qa2' = run_qa(plan)
    /\ steps' = Append(steps, "assess")
    /\ pc' = "done"
    /\ UNCHANGED <<disk, wr, plan, plan0, clock, cmd, qa1>>

\* The process is killed; an open file is closed as it is.
crash ==
    /\ pc \notin {"start", "done", "error", "crashed"}
    /\ pc' = "crashed"
    /\ wr' = "none"
    /\ UNCHANGED <<disk, plan, plan0, clock, cmd, qa1, qa2, steps>>

Next ==
    \/ cmd_plan \/ cmd_replan \/ cmd_qa
    \/ ensure_state \/ ensure_write \/ load_fail \/ load_plan
    \/ save_plan \/ save_write \/ update \/ assess \/ repair \/ reassess
    \/ crash

Spec == Init /\ [][Next]_vars

\* ------------------------------------------------------------------ claims

CriticalNames == {"goal_clarity", "measurability", "plan_execution_balance", "definition_of_done"}

\* Whether the check called name passed in assessment qa.
Verdict(qa, name) ==
    qa.checks[CHOOSE i \in DOMAIN qa.checks : qa.checks[i].name = name].passed

Disposition(qa) == print_qa(qa.score, qa.checks, qa.critical_failure)

RECURSIVE SumWeights(_, _)
SumWeights(checks, idx) ==
    IF idx = {} THEN 0
    ELSE LET i == CHOOSE j \in idx : TRUE
         IN checks[i].weight + SumWeights(checks, idx \ {i})

\* C1: the disposition is CRITICAL_FAILURE exactly when one of the four critical
\* checks fails, whatever the score; otherwise NEEDS_REPLAN exactly when the
\* score is under 70; otherwise PASS. An empty goal with every other check
\* passing scores 90 and is CRITICAL_FAILURE; the empty document scores 0 and is
\* CRITICAL_FAILURE.
C1_Disposition ==
    pc = "qa_out" =>
        LET d == Disposition(qa1)
            critFails == \E c \in CriticalNames : ~Verdict(qa1, c)
        IN /\ (d = "CRITICAL_FAILURE") <=> critFails
           /\ ~critFails => ((d = "NEEDS_REPLAN") <=> (qa1.score < 70))
           /\ (~critFails /\ qa1.score >= 70) => d = "PASS"
           /\ (plan["goal"] = "" /\ \A c \in CheckNames \ {"goal_clarity"} : Verdict(qa1, c))
                 => (qa1.score = 90 /\ d = "CRITICAL_FAILURE")
           /\ plan = EmptyDoc => (qa1.score = 0 /\ d = "CRITICAL_FAILURE")

C1_Witness ==
    /\ pc = "qa_out"
    /\ plan = Merge(FullDoc, [goal |-> ""])
    /\ qa1.score = 90
    /\ Disposition(qa1) = "CRITICAL_FAILURE"

\* C2: the score is the sum of the weights of exactly the checks that passed,
\* the twelve weights sum to 100, and so the score lies in 0..100.
C2_ScoreIsSumOfPassed ==
    pc = "qa_out" =>
        /\ Len(qa1.checks) = 12
        /\ SumWeights(qa1.checks, DOMAIN qa1.checks) = 100
        /\ qa1.score = SumWeights(qa1.checks, {i \in DOMAIN qa1.checks : qa1.checks[i].passed})
        /\ 0 <= qa1.score /\ qa1.score <= 100

C2_Witness ==
    /\ pc = "qa_out"
    /\ qa1.score = 35
    /\ {qa1.checks[i].name : i \in {j \in DOMAIN qa1.checks : qa1.checks[j].passed}}
          = CriticalNames

\* C3: with P plan tasks, E execution tasks and T = P + E, plan_execution_balance
\* fails exactly when T < 4, P = 0, E = 0 or P/T lies outside [0.4, 0.6]; the
\* bounds are inclusive: 2 and 3, and 3 and 2, pass; 1 and 4 fails.
C3_BalanceRule ==
    pc = "qa_out" =>
        LET P == Len(plan["plan_tasks"])
            E == Len(plan["execution_tasks"])
            T == P + E
            ok == Verdict(qa1, "plan_execution_balance")
        IN /\ ~ok <=> (T < 4 \/ P = 0 \/ E = 0 \/ 5 * P < 2 * T \/ 5 * P > 3 * T)
           /\ (P = 2 /\ E = 3) => ok
           /\ (P = 3 /\ E = 2) => ok
           /\ (P = 1 /\ E = 4) => ~ok

C3_Witness ==
    /\ pc = "qa_out"
    /\ Len(plan["plan_tasks"]) = 2 /\ Len(plan["execution_tasks"]) = 3
    /\ Verdict(qa1, "plan_execution_balance")

\* The steps from the first assessment on.
FromAssess(s) ==
    IF \E i \in DOMAIN s : s[i] = "assess"
    THEN SubSeq(s, CHOOSE i \in DOMAIN s : s[i] = "assess" /\ \A j \in 1..(i - 1) : s[j] # "assess",
                Len(s))
    ELSE <<>>

IsPrefix(s, t) == Len(s) <= Len(t) /\ s = SubSeq(t, 1, Len(s))

\* C4: in one run of plan or replan the steps are: assess; then, exactly when
\* the first disposition is NEEDS_REPLAN, one repair, a save of the repaired
\* document and one second assessment. After CRITICAL_FAILURE or PASS there is
\* no repair and the document stays as it was at the first assessment; repair
\* never runs twice.
C4_OrchestratorSteps ==
    (cmd.name \in {"plan", "replan"} /\ qa1 # NoQa) =>
        LET t == FromAssess(steps)
            replan == Disposition(qa1) = "NEEDS_REPLAN"
        IN /\ IsPrefix(t, <<"assess", "repair", "save", "assess">>)
           /\ pc = "done" =>
                 t = IF replan THEN <<"assess", "repair", "save", "assess">> ELSE <<"assess">>
           /\ ~replan => (t = <<"assess">> /\ pc = "done" /\ plan = plan0
                          /\ disk = Doc(plan0) /\ qa2 = NoQa)
           /\ (replan /\ pc = "done") => (qa2 = run_qa(plan) /\ disk = Doc(plan))

C4_Witness ==
    /\ pc = "done"
    /\ cmd.name = "plan"
    /\ steps = <<"load", "save", "assess", "repair", "save", "assess">>
    /\ plan # plan0

\* The fields repair may write.
RepairFields ==
    {"constraints", "assumptions", "options", "selected_option", "references", "insights",
     "plan_tasks", "execution_tasks", "experiments", "risks", "dependencies",
     "definition_of_done"} \cup AxisSet

\* C5: repair never overwrites, removes or reorders content: whatever verdicts
\* it is handed, a field that is not empty before repair has the same value
\* after it, so that only fields empty at the time of repair are written.
C5_RepairNeverOverwrites ==
    pc \in {"rp_repaired", "rp_done"} =>
        \A k \in RepairFields : ~Falsy(plan0, k) => (Has(plan, k) /\ plan[k] = plan0[k])

\* The rubric fields the four critical checks do not read.
OtherRubricFields ==
    {"constraints", "assumptions", "options", "selected_option", "references",
     "experiments", "risks", "dependencies"} \cup AxisSet

\* C6: when the four critical checks pass and every other rubric field is empty
\* ("" or []), the first assessment scores 35 and is NEEDS_REPLAN, and after one
\* repair pass the eight other checks all pass: score 100, PASS.
C6_Scenario ==
    (/\ pc = "rp_done"
     /\ qa1 = run_qa(plan0)
     /\ \A c \in CriticalNames : Verdict(qa1, c)
     /\ \A k \in OtherRubricFields : plan0[k] = EmptyDoc[k])
    => /\ qa1.score = 35
       /\ Disposition(qa1) = "NEEDS_REPLAN"
       /\ \A c \in CheckNames : Verdict(qa2, c)
       /\ qa2.score = 100
       /\ Disposition(qa2) = "PASS"

C6_Witness ==
    /\ pc = "rp_done"
    /\ plan0 = ScenarioDoc
    /\ qa1 = run_qa(ScenarioDoc)
    /\ qa1.score = 35
    /\ qa2.score = 100

\* C7: migration is idempotent: migrating a migrated document, whatever shape
\* the first input had and whenever the second migration runs, changes no field.
C7_MigrateIdempotent == pc = "mg_twice" => plan = plan0

C7_Witness ==
    /\ pc = "mg_twice"
    /\ plan = plan0
    /\ plan["plan_tasks"] = <<"u1", "u2">>
    /\ plan["execution_tasks"] = <<"u3", "u4", "u5">>
    /\ plan["updated_at"] = 1
    /\ clock = 2

\* Whether lines 63-67 split the legacy tasks list of document p.
LegacyShape(p) == Has(p, "tasks") /\ ~Has(p, "plan_tasks") /\ ~Has(p, "execution_tasks")

\* C8: apart from the legacy split, migration is purely additive: a missing
\* field gets its empty default and no value the input holds is altered or
\* dropped, a stored version and a tasks list beside plan_tasks or
\* execution_tasks included.
C8_MigrateAdditive ==
    pc = "mg_once" =>
        /\ \A k \in PlanKeys \ DOMAIN plan0 :
              \/ LegacyShape(plan0) /\ k \in {"plan_tasks", "execution_tasks"}
              \/ Has(plan, k) /\ plan[k] = default_plan(clock)[k]
        /\ \A k \in DOMAIN plan0 :
              \/ LegacyShape(plan0) /\ k = "tasks"
              \/ Has(plan, k) /\ plan[k] = plan0[k]

\* C9: save is atomic: while save_plan is writing, and if it is killed while
\* writing, plan.json holds a complete document, never an empty or partly
\* written one.
C9_SaveAtomic == wr = "save" => disk.kind = "doc"

\* C10: after every successful load the returned document has every field of
\* the data model, its version is "0.3.0" and plan.json holds that same
\* document; when there was no plan.json every field has its empty default.
C10_LoadInvariant ==
    (steps # <<>> /\ steps[Len(steps)] = "load" /\ pc \in {"update", "assess"}) =>
        /\ PlanKeys \subseteq DOMAIN plan
        /\ plan["version"] = "0.3.0"
        /\ disk = Doc(plan)
        /\ steps[1] = "create" =>
              \A k \in PlanKeys \ {"updated_at"} : plan[k] = EmptyDoc[k]

C10_Witness ==
    /\ steps = <<"load">>
    /\ pc = "update"
    /\ plan["plan_tasks"] = <<"u1", "u2">>
    /\ plan["execution_tasks"] = <<"u3", "u4">>
    /\ disk = Doc(plan)

\* C11: when the input has tasks of length n and neither plan_tasks nor
\* execution_tasks, migration sets plan_tasks to the first n \div 2 tasks and
\* execution_tasks to the other n - n \div 2, in order, and removes tasks; the
\* two lists concatenated are the original tasks.
C11_LegacySplit ==
    (pc = "mg_once" /\ LegacyShape(plan0)) =>
        LET tasks == plan0["tasks"]
            n == Len(tasks)
            half == n \div 2
        IN /\ ~Has(plan, "tasks")
           /\ Len(plan["plan_tasks"]) = half
           /\ Len(plan["execution_tasks"]) = n - half
           /\ \A i \in 1..half : plan["plan_tasks"][i] = tasks[i]
           /\ \A i \in 1..(n - half) : plan["execution_tasks"][i] = tasks[half + i]
           /\ plan["plan_tasks"] \o plan["execution_tasks"] = tasks

C11_Witness ==
    /\ pc = "mg_once"
    /\ LegacyShape(plan0)
    /\ Len(plan0["tasks"]) = 5
    /\ plan["plan_tasks"] = <<"u1", "u2">>
    /\ plan["execution_tasks"] = <<"u3", "u4", "u5">>

\* Repair has run with options_comparison named as failed on a document with no
\* options and no selected option ([] and "").
OptionsCase ==
    /\ pc \in {"rp_repaired", "rp_done"}
    /\ "options_comparison" \in FailedNames(qa1.checks)
    /\ plan0["options"] = <<>>
    /\ plan0["selected_option"] = ""

\* C12 as claimed: in that case repair inserts exactly two generic options and
\* selects one of them.
C12_TwoOptions ==
    OptionsCase =>
        /\ Len(plan["options"]) = 2
        /\ \E i \in DOMAIN plan["options"] : plan["selected_option"] = plan["options"][i]

\* C12 as amended: in that case repair inserts exactly three generic options,
\* always the same ones, and selects the second of them.
C12_ThreeOptions ==
    OptionsCase =>
        /\ plan["options"] = <<"Conservative option: narrow scope and faster delivery.",
                               "Balanced option: medium scope with staged rollout.",
                               "Aggressive option: broad scope with higher risk.">>
        /\ plan["selected_option"] = "Balanced option: medium scope with staged rollout."
        /\ plan["selected_option"] = plan["options"][2]

C12_Witness ==
    /\ OptionsCase
    /\ Len(plan["options"]) = 3
    /\ plan["selected_option"] = plan["options"][2]

\* C13: when plan_execution_balance is named as failed, repair writes two
\* generic plan tasks only into an empty plan_tasks and two generic execution
\* tasks only into an empty execution_tasks, each list on its own; a list with
\* content stays as it is, so a document with both lists non-empty and a bad
\* ratio keeps its task lists (is unchanged when no other check is named) and
\* still fails plan_execution_balance.
C13_BalanceRepair ==
    (pc \in {"rp_repaired", "rp_done"} /\ "plan_execution_balance" \in FailedNames(qa1.checks)) =>
        /\ plan["plan_tasks"] =
              IF plan0["plan_tasks"] = <<>>
              THEN <<"Collect references and extract constraints.",
                     "Generate and compare three strategy options.">>
              ELSE plan0["plan_tasks"]
        /\ plan["execution_tasks"] =
              IF plan0["execution_tasks"] = <<>>
              THEN <<"Implement minimal CLI flow for plan/qa/replan.",
                     "Run pilot and collect evidence against success metric.">>
              ELSE plan0["execution_tasks"]
        /\ (plan0["plan_tasks"] # <<>> /\ plan0["execution_tasks"] # <<>>
            /\ ~task_balance_ok(plan0))
              => /\ FailedNames(qa1.checks) = {"plan_execution_balance"} => plan = plan0
                 /\ pc = "rp_done" => ~Verdict(qa2, "plan_execution_balance")

C13_Witness ==
    /\ pc = "rp_done"
    /\ FailedNames(qa1.checks) = {"plan_execution_balance"}
    /\ Len(plan0["plan_tasks"]) = 1 /\ Len(plan0["execution_tasks"]) = 4
    /\ plan = plan0
    /\ ~Verdict(qa2, "plan_execution_balance")

\* The fields each check that repair has a branch for reads.
FieldsRead ==
    [constraints |-> {"constraints"}, assumptions |-> {"assumptions"},
     options_comparison |-> {"options", "selected_option"},
     references_coverage |-> {"references"}, insight_axes_coverage |-> AxisSet,
     plan_execution_balance |-> {"plan_tasks", "execution_tasks"},
     verification_loop |-> {"experiments"}, risk_coverage |-> {"risks"},
     dependencies |-> {"dependencies"}, definition_of_done |-> {"definition_of_done"}]

\* C14: after repair, for every check named as failed, every field that check
\* reads is non-empty, whatever the document held before, two or more options
\* with an empty or blank selected_option included.
C14_EverySlotPopulated ==
    pc \in {"rp_repaired", "rp_done"} =>
        \A c \in FailedNames(qa1.checks) \cap DOMAIN FieldsRead :
            \A k \in FieldsRead[c] : non_empty(plan, k)

\* The run has reached the repair pass.
RepairInvoked == pc = "repair" \/ \E i \in DOMAIN steps : steps[i] = "repair"

\* C15: when plan or replan runs the repair pass, the second assessment has no
\* critical failure and a score of at least 92, so it is PASS; only
\* options_comparison can still fail, and no check that passed in the first
\* assessment fails in the second.
C15_RepairedPasses ==
    (RepairInvoked /\ pc = "done") =>
        /\ ~qa2.critical_failure
        /\ qa2.score >= 92
        /\ Disposition(qa2) = "PASS"
        /\ FailedNames(qa2.checks) \subseteq {"options_comparison"}
        /\ \A c \in CheckNames : Verdict(qa1, c) => Verdict(qa2, c)

C15_Witness ==
    /\ RepairInvoked
    /\ pc = "done"
    /\ qa2.score = 92
    /\ FailedNames(qa2.checks) = {"options_comparison"}

\* The fields the four critical checks read.
CriticalFields ==
    {"goal", "success_metric", "deadline", "plan_tasks", "execution_tasks",
     "definition_of_done"}

\* C16: when plan or replan invokes repair, no critical check is among the
\* failed checks, so the plan_execution_balance and definition_of_done branches
\* are not taken and the fields the critical checks read are the same after the
\* repair pass as before it.
C16_CriticalFieldsKept ==
    RepairInvoked =>
        /\ FailedNames(qa1.checks) \cap CriticalNames = {}
        /\ \A k \in CriticalFields : plan[k] = plan0[k]
        /\ RepairBalance(plan0, FailedNames(qa1.checks)) = plan0

C16_Witness ==
    /\ RepairInvoked
    /\ pc = "done"
    /\ plan # plan0
    /\ \A k \in CriticalFields : plan[k] = plan0[k]
    /\ plan["plan_tasks"] = <<"u1", "u2">>

====
